---- MODULE Spec2Model ----
(***************************************************************************)
(* Indicator signal evaluators of the repository:                          *)
(*   RSIFeature            src/core/features/candles/rsi.py                *)
(*   BollingerFeature      src/core/features/candles/bb.py                 *)
(*   EMACrossoverController src/app/controllers/directional_trading/       *)
(*                          ema_crossover.py                               *)
(*   MacdMomentumController src/app/controllers/directional_trading/       *)
(*                          macd_momentum.py                               *)
(*                                                                         *)
(* One behaviour follows one constructed evaluator object (kind, cfg)      *)
(* through a sequence of calls while the candle window it is handed grows. *)
(*                                                                         *)
(* Numbers.  Floats are modelled as exact rationals <<n, d>> in lowest     *)
(* terms with d > 0; NaN is <<0, 0>>, +inf is <<1, 0>>, -inf is <<-1, 0>>. *)
(* Every comparison with NaN is FALSE, as in pandas.                       *)
(***************************************************************************)
EXTENDS Integers, Sequences, FiniteSets, TLC

(* The evaluator and the candle table it is handed. *)
VARIABLES kind, cfg, candles, result, processed_data, raised, absent, frame

(* The pools screener: the table fetched, what clean_pools returned and    *)
(* what filter_pools returned.                                              *)
VARIABLES pools, cleaned, filtered

(* The Telegram notifier, its send_notification call and the requests the  *)
(* call has made.                                                          *)
VARIABLES notifier, call, posts

evaluator_vars ==
    <<kind, cfg, candles, result, processed_data, raised, absent, frame>>

screener_vars == <<pools, cleaned, filtered>>

notifier_vars == <<notifier, call, posts>>

vars == <<evaluator_vars, screener_vars, notifier_vars>>

----------------------------------------------------------------------------
(* Bounds of the model. *)

MaxRows == 4

----------------------------------------------------------------------------
(* Rational arithmetic with NaN and infinities. *)

Abs(n) == IF n < 0 THEN -n ELSE n

Sgn(n) == IF n < 0 THEN -1 ELSE IF n > 0 THEN 1 ELSE 0

RECURSIVE Gcd(_, _)
Gcd(a, b) == IF b = 0 THEN a ELSE Gcd(b, a % b)

NaN == <<0, 0>>

Q(n, d) ==
    IF d = 0 THEN <<Sgn(n), 0>>
    ELSE LET g == Gcd(Abs(n), Abs(d))
         IN  <<(Sgn(d) * n) \div g, Abs(d) \div g>>

I(n) == <<n, 1>>

IsNaN(x) == x = NaN

IsFinite(x) == x[2] > 0

Lt(x, y) == ~IsNaN(x) /\ ~IsNaN(y) /\ x[1] * y[2] < y[1] * x[2]

Gt(x, y) == Lt(y, x)

Le(x, y) == ~IsNaN(x) /\ ~IsNaN(y) /\ x[1] * y[2] <= y[1] * x[2]
            /\ ~(x[2] = 0 /\ y[2] = 0 /\ x[1] # y[1])

Ge(x, y) == Le(y, x)

Add(x, y) ==
    IF IsNaN(x) \/ IsNaN(y) THEN NaN
    ELSE IF x[2] = 0 /\ y[2] = 0 THEN (IF x[1] = y[1] THEN x ELSE NaN)
    ELSE IF x[2] = 0 THEN x
    ELSE IF y[2] = 0 THEN y
    ELSE Q(x[1] * y[2] + y[1] * x[2], x[2] * y[2])

Neg(x) == <<-x[1], x[2]>>

Sub(x, y) == Add(x, Neg(y))

Mul(x, y) ==
    IF IsNaN(x) \/ IsNaN(y) THEN NaN
    ELSE IF x[2] = 0 \/ y[2] = 0 THEN <<Sgn(x[1]) * Sgn(y[1]), 0>>
    ELSE Q(x[1] * y[1], x[2] * y[2])

Div(x, y) ==
    IF IsNaN(x) \/ IsNaN(y) THEN NaN
    ELSE IF y[2] = 0 THEN (IF x[2] = 0 THEN NaN ELSE I(0))
    ELSE IF x[2] = 0 THEN <<x[1] * (IF y[1] < 0 THEN -1 ELSE 1), 0>>
    ELSE Q(x[1] * y[2], x[2] * y[1])

Max0(x) == IF Lt(x, I(0)) THEN I(0) ELSE x

Min0(x) == IF Gt(x, I(0)) THEN I(0) ELSE x

Last(s) == s[Len(s)]

(* The running sums of s after those of sums, value by value. *)
RECURSIVE CumSum(_, _)
CumSum(s, sums) ==
    IF Len(sums) >= Len(s) THEN sums
    ELSE CumSum(s, Append(sums, Add(IF sums = <<>> THEN I(0) ELSE Last(sums),
                                    s[Len(sums) + 1])))

SumSeq(s) == IF s = <<>> THEN I(0) ELSE Last(CumSum(s, <<>>))

(* A series held as a sequence of its values. *)
Series(f) == SubSeq(f, 1, Len(f))

----------------------------------------------------------------------------
(* Input sets.  A candle is [close, volume, adx]: close and volume are the *)
(* columns of the snapshot; adx is the value the trend-strength index of   *)
(* the indicator library takes on that row (the library computes it from   *)
(* high/low/close, which the controllers never read), and 0 on the rows on *)
(* which that index is not defined.                                        *)

Closes == {1, 2, 3}

EmaCloses == {1, 2}

Volumes == {1, 2}

AdxValues == {25, 30}

Kinds == {"rsi", "bb", "ema", "macd"}

None == [none |-> TRUE]

----------------------------------------------------------------------------
(* pandas primitives used by the features. *)

CloseCol(c) == Series([t \in 1..Len(c) |-> I(c[t].close)])

(* Series.diff(): NaN on the first row. *)
Diff(s) ==
    Series([t \in 1..Len(s) |-> IF t = 1 THEN NaN ELSE Sub(s[t], s[t - 1])])

(* Series.clip(lower=0) and Series.clip(upper=0): NaN stays NaN. *)
ClipLower0(s) == Series([t \in 1..Len(s) |-> Max0(s[t])])

ClipUpper0(s) == Series([t \in 1..Len(s) |-> Min0(s[t])])

(* Series.ewm(alpha=a, adjust=False).mean(): NaN until the first            *)
(* observation, which seeds the average; then y = (1-a) y' + a x.           *)
RECURSIVE EwmAt(_, _, _)
EwmAt(s, a, t) ==
    IF t = 1 THEN s[1]
    ELSE LET p == EwmAt(s, a, t - 1)
         IN  IF IsNaN(p) THEN s[t]
             ELSE IF IsNaN(s[t]) THEN p
             ELSE Add(Mul(Sub(I(1), a), p), Mul(a, s[t]))

Ewm(s, a) == Series([t \in 1..Len(s) |-> EwmAt(s, a, t)])

(* Series.rolling(n).mean(): NaN until n rows are available. *)
RollingMean(s, n) ==
    Series([t \in 1..Len(s) |->
        IF n < 1 \/ t < n THEN NaN
        ELSE Div(SumSeq(SubSeq(s, t - n + 1, t)), I(n))])

(* Square of Series.rolling(n).std(ddof=0): mean of squares minus the      *)
(* square of the mean.                                                     *)
RollingVar(s, n) ==
    Series([t \in 1..Len(s) |->
        IF n < 1 \/ t < n THEN NaN
        ELSE LET w  == SubSeq(s, t - n + 1, t)
                 m  == Div(SumSeq(w), I(n))
                 m2 == Div(SumSeq([i \in 1..n |-> Mul(w[i], w[i])]), I(n))
             IN  Sub(m2, Mul(m, m))])

----------------------------------------------------------------------------
(* RSIFeature.  The constant 1e-12 added to avg_loss is smaller than the   *)
(* distance between any two distinct values the bounded model compares, so *)
(* a number that carries it is kept as [q, e]: the rational q displaced by *)
(* a positive amount below every such distance, downwards (e = -1),        *)
(* upwards (e = 1) or not at all (e = 0).                                  *)

E0(q) == [q |-> q, e |-> 0]

(* rs = avg_gain / (avg_loss + 1e-12) *)
Rs(g, l) ==
    IF IsNaN(g) \/ IsNaN(l) THEN E0(NaN)
    ELSE IF g = I(0) THEN E0(I(0))
    ELSE IF l = I(0) THEN [q |-> <<Sgn(g[1]), 0>>, e |-> -Sgn(g[1])]
    ELSE [q |-> Div(g, l), e |-> -Sgn(g[1])]

(* The quotient 100 / (1 + rs) alone, not taken from 100. *)
RsiOfComplement(rs) ==
    IF IsNaN(rs.q) THEN E0(NaN)
    ELSE [q |-> Div(I(100), Add(I(1), rs.q)), e |-> -rs.e]

(* rsi = 100 - 100 / (1 + rs) *)
RsiOf(rs) ==
    IF IsNaN(rs.q) THEN E0(NaN)
    ELSE [q |-> Sub(I(100), Div(I(100), Add(I(1), rs.q))), e |-> rs.e]

ELt(x, th) == Lt(x.q, th) \/ (IsFinite(x.q) /\ x.q = th /\ x.e < 0)

EGt(x, th) == Gt(x.q, th) \/ (IsFinite(x.q) /\ x.q = th /\ x.e > 0)

EGe(x, th) == ~IsNaN(x.q) /\ ~IsNaN(th) /\ ~ELt(x, th)

ELe(x, th) == ~IsNaN(x.q) /\ ~IsNaN(th) /\ ~EGt(x, th)

(* (x - lo) / den  and  (hi - x) / den  for rationals lo, hi, den *)
EAffine(x, lo, den) ==
    LET q == Div(Sub(x.q, lo), den)
    IN  [q |-> q, e |-> IF IsFinite(q) THEN x.e * Sgn(den[1]) ELSE 0]

ENeg(x) == [q |-> Neg(x.q), e |-> -x.e]

(* Series.clip(lower=0, upper=1) *)
EClip01(x) ==
    IF IsNaN(x.q) THEN x
    ELSE IF ELt(x, I(0)) THEN E0(I(0))
    ELSE IF EGt(x, I(1)) THEN E0(I(1))
    ELSE x

(* The two .loc assignments in the opposite order. *)
RsiSignalReversed(rsi, c) ==
    LET s0 == 0
        s1 == IF EGt(rsi, I(c.overbought)) THEN -1 ELSE s0
        s2 == IF ELt(rsi, I(c.oversold)) THEN 1 ELSE s1
    IN  s2

(* df["signal"] = 0, then the two .loc assignments in source order. *)
RsiSignal(rsi, c) ==
    LET s0 == 0
        s1 == IF ELt(rsi, I(c.oversold)) THEN 1 ELSE s0
        s2 == IF EGt(rsi, I(c.overbought)) THEN -1 ELSE s1
    IN  s2

(* df["signal_intensity"] = 0.0, then the masked, clipped assignments. *)
RsiIntensity(rsi, sig, c) ==
    IF sig = 1
      THEN EClip01(EAffine(ENeg(rsi), I(-c.oversold), I(c.oversold)))
    ELSE IF sig = -1
      THEN EClip01(EAffine(rsi, I(c.overbought), I(100 - c.overbought)))
    ELSE E0(I(0))

(* One row of the annotated frame: lines 42-60 on the row's averages. *)
RsiRowOf(close, rsi, sig, c) ==
    [close |-> close, rsi |-> rsi, signal |-> sig,
     signal_intensity |-> RsiIntensity(rsi, sig, c)]

RsiRowAt(close, rsi, c) == RsiRowOf(close, rsi, RsiSignal(rsi, c), c)

RsiRow(close, avg_gain, avg_loss, c) ==
    RsiRowAt(close, RsiOf(Rs(avg_gain, avg_loss)), c)

RsiFrame(close, avg_gain, avg_loss, c) ==
    Series([t \in 1..Len(close) |->
               RsiRow(close[t], avg_gain[t], avg_loss[t], c)])

Negated(s) == Series([t \in 1..Len(s) |-> Neg(s[t])])

RsiAverages(close, delta, alpha, c) ==
    RsiFrame(close,
             Ewm(ClipLower0(delta), alpha),
             Ewm(Negated(ClipUpper0(delta)), alpha),
             c)

RsiOnClose(close, c) == RsiAverages(close, Diff(close), Q(1, c.length), c)

RsiCalculate(c, cs) == RsiOnClose(CloseCol(cs), c)

----------------------------------------------------------------------------
(* BollingerFeature.  The standard deviation is a square root, so a number *)
(* derived from it is kept exactly as [a, b, v] = a + b * sqrt(v), with v  *)
(* the rolling variance of the row (a rational >= 0) and a, b rationals;   *)
(* NaN and the infinities are carried by a, with b = 0.                    *)

S0(a) == [a |-> a, b |-> I(0), v |-> I(0)]

(* a + b * sqrt(v) < 0 *)
SurdNegative(x) ==
    IF IsNaN(x.a) THEN FALSE
    ELSE IF ~IsFinite(x.a) THEN x.a[1] < 0
    ELSE LET s  == IF x.v = I(0) THEN 0 ELSE Sgn(x.b[1])
             a2 == Mul(x.a, x.a)
             r2 == Mul(Mul(x.b, x.b), x.v)
         IN  IF x.a[1] < 0 /\ s <= 0 THEN TRUE
             ELSE IF x.a[1] >= 0 /\ s >= 0 THEN FALSE
             ELSE IF x.a[1] < 0 THEN Gt(a2, r2)
             ELSE Lt(a2, r2)

SurdZero(x) ==
    /\ IsFinite(x.a)
    /\ ~SurdNegative(x)
    /\ ~SurdNegative([a |-> Neg(x.a), b |-> Neg(x.b), v |-> x.v])

SSub(x, y) ==
    IF IsNaN(x.a) \/ IsNaN(y.a) THEN S0(NaN)
    ELSE IF ~IsFinite(x.a) \/ ~IsFinite(y.a) THEN S0(Sub(x.a, y.a))
    ELSE [a |-> Sub(x.a, y.a), b |-> Sub(x.b, y.b),
          v |-> IF x.b = I(0) THEN y.v ELSE x.v]

SLt(x, y) == ~IsNaN(x.a) /\ ~IsNaN(y.a) /\ SurdNegative(SSub(x, y))

SGt(x, y) == SLt(y, x)

SGe(x, y) == ~IsNaN(x.a) /\ ~IsNaN(y.a) /\ ~SLt(x, y)

SLe(x, y) == ~IsNaN(x.a) /\ ~IsNaN(y.a) /\ ~SGt(x, y)

(* x / y where y = b * sqrt(v) has no rational part (a band width):        *)
(* (a + b sqrt v) / (c sqrt v) = b/c + (a / (c v)) sqrt v; a zero divisor  *)
(* gives +inf, -inf or NaN by the sign of x.                               *)
SDivWidth(x, y) ==
    IF IsNaN(x.a) \/ IsNaN(y.a) THEN S0(NaN)
    ELSE IF y.b = I(0) \/ y.v = I(0) \* the divisor is 0
      THEN IF SurdZero(x) THEN S0(NaN)
           ELSE IF SurdNegative(x) THEN S0(<<-1, 0>>)
           ELSE S0(<<1, 0>>)
    ELSE [a |-> Div(x.b, y.b), b |-> Div(x.a, Mul(y.b, y.v)), v |-> y.v]

(* x / m for a rational m *)
SDivRat(x, m) ==
    IF IsNaN(x.a) \/ IsNaN(m) THEN S0(NaN)
    ELSE IF m = I(0)
      THEN IF SurdZero(x) THEN S0(NaN)
           ELSE IF SurdNegative(x) THEN S0(<<-1, 0>>)
           ELSE S0(<<1, 0>>)
    ELSE [a |-> Div(x.a, m), b |-> Div(x.b, m), v |-> x.v]

SScale(k, x) == [a |-> Mul(I(k), x.a), b |-> Mul(I(k), x.b), v |-> x.v]

(* Series.clip(lower=0) *)
SClipLower0(x) == IF SurdNegative(x) THEN S0(I(0)) ELSE x

(* Series.clip(0, 1) *)
SClip01(x) ==
    IF IsNaN(x.a) THEN x
    ELSE IF SurdNegative(x) THEN S0(I(0))
    ELSE IF SGt(x, S0(I(1))) THEN S0(I(1))
    ELSE x

(* The comparisons taken as <= and >=. *)
BbSignalInclusive(close, lower, upper) ==
    LET s0 == 0
        s1 == IF SLe(close, lower) THEN 1 ELSE s0
        s2 == IF SGe(close, upper) THEN -1 ELSE s1
    IN  s2

(* df['signal'] = 0, then the two .loc assignments in source order. *)
BbSignal(close, lower, upper) ==
    LET s0 == 0
        s1 == IF SLt(close, lower) THEN 1 ELSE s0
        s2 == IF SGt(close, upper) THEN -1 ELSE s1
    IN  s2

(* The quotients without .clip(0, 1). *)
BbIntensityUnclipped(sig, dist_lower, dist_upper, width) ==
    IF sig = 1 THEN SDivWidth(dist_lower, width)
    ELSE IF sig = -1 THEN SDivWidth(dist_upper, width)
    ELSE S0(I(0))

(* df['signal_intensity'] = 0.0, then the masked assignments of the        *)
(* clipped quotients.                                                      *)
BbIntensity(sig, dist_lower, dist_upper, width) ==
    IF sig = 1 THEN SClip01(SDivWidth(dist_lower, width))
    ELSE IF sig = -1 THEN SClip01(SDivWidth(dist_upper, width))
    ELSE S0(I(0))

BbBand(ma, k, var) ==
    IF IsNaN(ma) THEN S0(NaN) ELSE [a |-> ma, b |-> I(k), v |-> var]

(* The intensity taken as the distance from the band that was crossed. *)
BbRowOfFromBand(cl, mid, upper, lower, width, sig) ==
    [close |-> cl.a, bb_mid |-> mid.a,
     bb_upper |-> upper, bb_lower |-> lower,
     bb_width |-> SDivRat(width, mid.a),
     band_pos |-> SDivWidth(SSub(cl, lower), width),
     signal |-> sig,
     signal_intensity |->
         BbIntensity(sig, SClipLower0(SSub(lower, cl)),
                     SClipLower0(SSub(cl, upper)), width)]

BbRowOf(cl, mid, upper, lower, width, sig) ==
    [close |-> cl.a, bb_mid |-> mid.a,
     bb_upper |-> upper, bb_lower |-> lower,
     bb_width |-> SDivRat(width, mid.a),
     band_pos |-> SDivWidth(SSub(cl, lower), width),
     signal |-> sig,
     signal_intensity |->
         BbIntensity(sig, SClipLower0(SSub(mid, cl)),
                     SClipLower0(SSub(cl, mid)), width)]

BbRowAt(cl, mid, upper, lower) ==
    BbRowOf(cl, mid, upper, lower, SSub(upper, lower),
            BbSignal(cl, lower, upper))

BbRow(close, ma, var, c) ==
    BbRowAt(S0(close), S0(ma), BbBand(ma, c.mult, var),
            BbBand(ma, -c.mult, var))

BbFrame(close, ma, var, c) ==
    Series([t \in 1..Len(close) |-> BbRow(close[t], ma[t], var[t], c)])

BbOnClose(close, c) ==
    BbFrame(close, RollingMean(close, c.length),
            RollingVar(close, c.length), c)

BbCalculate(c, cs) == BbOnClose(CloseCol(cs), c)

----------------------------------------------------------------------------
(* The indicator library the controllers call (df.ta.ema / adx / macd /    *)
(* rsi with append=True).  Each indicator gives up when the frame has      *)
(* fewer rows than its period, and the accessor then hands back the frame  *)
(* itself in place of the indicator's result.                              *)

TooShort(n, period) == n < period

(* EMA seeded with the simple mean of the first `length` values, then      *)
(* alpha = 2 / (length + 1).                                               *)
(* The average of row t from that of row t - 1. *)
TaEmaAt(s, length, t, prev) ==
    IF t < length THEN NaN
    ELSE IF t = length THEN Div(SumSeq(SubSeq(s, 1, length)), I(length))
    ELSE Add(Mul(Q(2, length + 1), s[t]), Mul(Q(length - 1, length + 1), prev))

(* The averages of the rows after those of ema, row by row. *)
RECURSIVE TaEmaFrom(_, _, _)
TaEmaFrom(s, length, ema) ==
    IF Len(ema) >= Len(s) THEN ema
    ELSE TaEmaFrom(s, length,
                   Append(ema, TaEmaAt(s, length, Len(ema) + 1,
                                       IF ema = <<>> THEN NaN ELSE Last(ema))))

TaEma(s, length) == TaEmaFrom(s, length, <<>>)

(* ADX: an average of `length` values of an index that itself needs        *)
(* `length` earlier rows, so the first defined row is 2 * length.          *)
TaAdx(cs, length) ==
    Series([t \in 1..Len(cs) |->
               IF t < 2 * length THEN NaN ELSE I(cs[t].adx)])

(* RSI of the library: 100 * up / (up + down) with up and down the         *)
(* weighted sums (weight (1 - 1/length)^age) of the rises and falls of     *)
(* close; undefined before `length` changes are seen.                      *)
RECURSIVE WeightedSum(_, _, _)
WeightedSum(x, length, t) ==
    IF t < 2 THEN I(0)
    ELSE Add(x[t], Mul(Q(length - 1, length), WeightedSum(x, length, t - 1)))

TaRsiAt(up, down, length, t) ==
    IF t < length + 1 THEN NaN
    ELSE Div(Mul(I(100), WeightedSum(up, length, t)),
             Add(WeightedSum(up, length, t), WeightedSum(down, length, t)))

TaRsiOf(up, down, length) ==
    Series([t \in 1..Len(up) |-> TaRsiAt(up, down, length, t)])

TaRsiOnDelta(delta, length) ==
    TaRsiOf(ClipLower0(delta), Negated(ClipUpper0(delta)), length)

TaRsi(close, length) == TaRsiOnDelta(Diff(close), length)

(* market_data_provider.get_candles_df: timestamp is the first column.     *)
(* open is the previous close, high and low the larger and the smaller of  *)
(* open and close.                                                         *)
GetCandlesDf(cs) ==
    Series([t \in 1..Len(cs) |->
        LET o == IF t = 1 THEN cs[t].close ELSE cs[t - 1].close
        IN  [timestamp |-> I(1000 + t),
             open      |-> I(o),
             high      |-> I(IF o > cs[t].close THEN o ELSE cs[t].close),
             low       |-> I(IF o < cs[t].close THEN o ELSE cs[t].close),
             close     |-> I(cs[t].close),
             volume    |-> I(cs[t].volume)]])

FrameColumns == <<"timestamp", "open", "high", "low", "close", "volume">>

(* The table without the column `name`. *)
Without(row, name) == [k \in DOMAIN row \ {name} |-> row[k]]

Dropped(df, name) == Series([t \in 1..Len(df) |-> Without(df[t], name)])

(* The candle table the data collaborator hands over: all the columns, or  *)
(* all but the absent one.                                                 *)
CandleTable(cs, ab) == Dropped(GetCandlesDf(cs), ab)

Column(df, name) == Series([t \in 1..Len(df) |-> df[t][name]])

(* Series.shift(1) *)
Shift1(s) == Series([t \in 1..Len(s) |-> IF t = 1 THEN NaN ELSE s[t - 1]])

----------------------------------------------------------------------------
(* EMACrossoverController.update_processed_data *)

EmaLong(fast, slow, pfast, pslow, volume, avg_volume, adx, c) ==
    /\ Gt(fast, slow)
    /\ Le(pfast, pslow)
    /\ Gt(volume, Mul(avg_volume, c.volume_multiplier))
    /\ Gt(adx, I(c.adx_threshold))

EmaShort(fast, slow, pfast, pslow, volume, avg_volume, adx, c) ==
    /\ Lt(fast, slow)
    /\ Ge(pfast, pslow)
    /\ Gt(volume, Mul(avg_volume, c.volume_multiplier))
    /\ Gt(adx, I(c.adx_threshold))

(* A cycle that raises, and the frame as the cycle leaves it: the columns  *)
(* appended before the raise stay in the frame.                            *)
Raises(err, df) == [raises |-> err, frame |-> df]

(* The sides written as the exchange's trade types, BUY = 1 and SELL = 2. *)
EntrySignalTradeType(long, short) ==
    LET s0 == 0
        s1 == IF long THEN 1 ELSE s0
        s2 == IF short THEN 2 ELSE s1
    IN  s2

(* df["signal"] = 0; df.loc[long, "signal"] = 1; df.loc[short, ...] = -1 *)
EntrySignal(long, short) ==
    LET s0 == 0
        s1 == IF long THEN 1 ELSE s0
        s2 == IF short THEN -1 ELSE s1
    IN  s2

(* The signal added to the signal column the frame already has. *)
WithSignalAdded(df, sig) ==
    Series([t \in 1..Len(df) |->
        [signal |-> IF "signal" \in DOMAIN df[t]
                      THEN df[t].signal + sig[t] ELSE sig[t]] @@ df[t]])

WithSignal(df, sig) ==
    Series([t \in 1..Len(df) |-> [signal |-> sig[t]] @@ df[t]])

(* The signal entry taken from the first row. *)
StoredFirst(df, sig) ==
    [raises |-> "none", signal |-> sig[1], features |-> WithSignal(df, sig)]

(* self.processed_data["signal"] = df["signal"].iloc[-1];                  *)
(* self.processed_data["features"] = df                                    *)
Stored(df, sig) ==
    [raises |-> "none", signal |-> Last(sig), features |-> WithSignal(df, sig)]

EmaSignals(fast_ema, slow_ema, volume, avg_volume, adx, c) ==
    Series([t \in 1..Len(fast_ema) |->
        EntrySignal(
            EmaLong(fast_ema[t], slow_ema[t],
                    Shift1(fast_ema)[t], Shift1(slow_ema)[t],
                    volume[t], avg_volume[t], adx[t], c),
            EmaShort(fast_ema[t], slow_ema[t],
                     Shift1(fast_ema)[t], Shift1(slow_ema)[t],
                     volume[t], avg_volume[t], adx[t], c))])

(* Lines 115-142 on the frame with the indicator columns appended. *)
EmaEvaluate(df, adx_col, c) ==
    Stored(df, EmaSignals(Column(df, "EMA_fast"), Column(df, "EMA_slow"),
                          Column(df, "volume"), Column(df, "avg_volume"),
                          Column(df, adx_col), c))

WithEma(df, fast_ema, slow_ema) ==
    Series([t \in 1..Len(df) |->
        [EMA_fast |-> fast_ema[t], EMA_slow |-> slow_ema[t]] @@ df[t]])

WithAdx(df, adx) == Series([t \in 1..Len(df) |-> [ADX |-> adx[t]] @@ df[t]])

WithAvgVolume(df, avg_volume) ==
    Series([t \in 1..Len(df) |-> [avg_volume |-> avg_volume[t]] @@ df[t]])

(* Lines 104-105: the two EMA columns. *)
EmaColumns(df, close, c) ==
    WithEma(df, TaEma(close, c.ema_fast), TaEma(close, c.ema_slow))

(* Line 106: the ADX column, when the library produced one. *)
AdxColumn(df, cs, has_adx, c) ==
    IF has_adx THEN WithAdx(df, TaAdx(cs, c.adx_period)) ELSE df

(* Line 107 *)
AvgVolumeColumn(df, volume, c) ==
    WithAvgVolume(df, RollingMean(volume, c.volume_period))

EmaIndicators(df, cs, has_adx, c) ==
    AvgVolumeColumn(
        AdxColumn(EmaColumns(df, Column(df, "close"), c), cs, has_adx, c),
        Column(df, "volume"), c)

(* Line 106: the name of the first column of what the accessor returned. *)
AdxColName(has_adx) == IF has_adx THEN "ADX" ELSE FrameColumns[1]

EmaOnFrame(df, cs, has_adx, c) ==
    EmaEvaluate(EmaIndicators(df, cs, has_adx, c), AdxColName(has_adx), c)

(* Line 104 alone: the fast EMA column. *)
WithFastEma(df, fast_ema) ==
    Series([t \in 1..Len(df) |-> [EMA_fast |-> fast_ema[t]] @@ df[t]])

FastEmaColumn(df, close, c) == WithFastEma(df, TaEma(close, c.ema_fast))

(* Lines 104-106: the frame when line 107 looks for the volume column. *)
EmaAndAdx(df, cs, has_adx, c) ==
    AdxColumn(EmaColumns(df, Column(df, "close"), c), cs, has_adx, c)

(* The cycle on the frame df the collaborator handed over (rows cs, column *)
(* ab absent).  Without a close column, or on a frame shorter than the     *)
(* period, df.ta.ema returns the frame and .name raises; without a volume  *)
(* column line 107 raises.                                                 *)
EmaUpdate(c, df, cs, ab) ==
    IF ab = "close" \/ TooShort(Len(cs), c.ema_fast)
      THEN Raises("AttributeError", df)
    ELSE IF TooShort(Len(cs), c.ema_slow)
      THEN Raises("AttributeError", FastEmaColumn(df, Column(df, "close"), c))
    ELSE IF ab = "volume"
      THEN Raises("KeyError",
                  EmaAndAdx(df, cs, ~TooShort(Len(cs), c.adx_period), c))
    ELSE EmaOnFrame(df, cs, ~TooShort(Len(cs), c.adx_period), c)

----------------------------------------------------------------------------
(* MacdMomentumController.update_processed_data *)

Max2(a, b) == IF a > b THEN a ELSE b

Min2(a, b) == IF a < b THEN a ELSE b

(* The library's MACD frame: columns MACD, MACDh (histogram), MACDs        *)
(* (signal line), in this order.                                           *)
MacdColumns == <<"MACD", "MACDh", "MACDs">>

MacdRows(macd, signalma) ==
    Series([t \in 1..Len(macd) |->
        [MACD  |-> macd[t],
         MACDh |-> Sub(macd[t], signalma[t]),
         MACDs |-> signalma[t]]])

(* The signal line: the EMA of the MACD line from its first valid row on. *)
SignalLine(sigma, sl, n) ==
    Series([t \in 1..n |-> IF t < sl THEN NaN ELSE sigma[t - sl + 1]])

MacdOfLine(macd, sl, signal) ==
    MacdRows(macd,
             SignalLine(TaEma(SubSeq(macd, sl, Len(macd)), signal),
                        sl, Len(macd)))

Difference(x, y) == Series([t \in 1..Len(x) |-> Sub(x[t], y[t])])

TaMacd(close, fast, slow, signal) ==
    MacdOfLine(Difference(TaEma(close, Min2(fast, slow)),
                          TaEma(close, Max2(fast, slow))),
               Max2(fast, slow), signal)

MacdLong(a, b, pa, pb, h, ph, rsi) ==
    Gt(a, b) /\ Le(pa, pb) /\ Gt(h, ph) /\ Gt(rsi, I(50))

MacdShort(a, b, pa, pb, h, ph, rsi) ==
    Lt(a, b) /\ Ge(pa, pb) /\ Lt(h, ph) /\ Lt(rsi, I(50))

MacdExit(a, pa) == Lt(Mul(a, pa), I(0))

(* The exit assignment placed before the entry assignments. *)
MacdSignalExitFirst(long, short, exit) ==
    LET s1 == IF exit THEN 0 ELSE 0
    IN  IF short THEN -1 ELSE IF long THEN 1 ELSE s1

(* df["signal"] = 0; the two entry assignments; then the exit assignment. *)
MacdSignal(long, short, exit) ==
    LET s2 == EntrySignal(long, short)
        s3 == IF exit THEN 0 ELSE s2
    IN  s3

MacdSignals(a, b, h, rsi) ==
    Series([t \in 1..Len(a) |->
        MacdSignal(
            MacdLong(a[t], b[t], Shift1(a)[t], Shift1(b)[t],
                     h[t], Shift1(h)[t], rsi[t]),
            MacdShort(a[t], b[t], Shift1(a)[t], Shift1(b)[t],
                      h[t], Shift1(h)[t], rsi[t]),
            MacdExit(a[t], Shift1(a)[t]))])

(* Lines 97-135: macd_col, macd_signal_col and macd_hist_col are the       *)
(* first, second and third column of what the macd call returned.          *)
MacdEvaluate(df, macd_cols) ==
    Stored(df, MacdSignals(Column(df, macd_cols[1]), Column(df, macd_cols[2]),
                           Column(df, macd_cols[3]), Column(df, "RSI")))

WithRows(df, rows) == Series([t \in 1..Len(df) |-> rows[t] @@ df[t]])

WithRsi(df, rsi) == Series([t \in 1..Len(df) |-> [RSI |-> rsi[t]] @@ df[t]])

(* Lines 88-94: the columns the two library calls append. *)
MacdIndicators(df, close, has_macd, c) ==
    WithRsi(IF has_macd
              THEN WithRows(df, TaMacd(close, c.macd_fast, c.macd_slow,
                                       c.macd_signal))
              ELSE df,
            TaRsi(close, c.rsi_period))

MacdOnFrame(df, has_macd, c) ==
    MacdEvaluate(MacdIndicators(df, Column(df, "close"), has_macd, c),
                 IF has_macd THEN MacdColumns ELSE FrameColumns)

HasMacd(n, c) ==
    ~TooShort(n, Max2(Max2(c.macd_fast, c.macd_slow), c.macd_signal))

(* Line 88 alone: the MACD columns, when the library produced them. *)
MacdColumnsOnly(df, close, has_macd, c) ==
    IF has_macd
      THEN WithRows(df, TaMacd(close, c.macd_fast, c.macd_slow, c.macd_signal))
      ELSE df

(* The cycle on the frame df the collaborator handed over (rows cs, column *)
(* ab absent).  Without a close column both library calls return the       *)
(* frame, and rsi_col.name raises.                                         *)
MacdUpdate(c, df, cs, ab) ==
    IF ab = "close"
      THEN Raises("AttributeError", df)
    ELSE IF /\ HasMacd(Len(cs), c)
            /\ TooShort(Len(cs) - Max2(c.macd_fast, c.macd_slow) + 1,
                        c.macd_signal)
      THEN Raises("TypeError", df)
    ELSE IF TooShort(Len(cs), c.rsi_period)
      THEN Raises("AttributeError",
                  MacdColumnsOnly(df, Column(df, "close"),
                                  HasMacd(Len(cs), c), c))
    ELSE MacdOnFrame(df, HasMacd(Len(cs), c), c)

----------------------------------------------------------------------------
(* calculate, create_feature and create_signal of the two features, as     *)
(* called on the candle table with rows cs and column ab absent.           *)

(* The close column taken as present whatever the table holds. *)
MissingCloseIgnored(ab) == FALSE

(* if "close" not in candles.columns: raise ValueError *)
MissingClose(ab) == ab = "close"

RsiCall(c, cs, ab) ==
    IF MissingClose(ab) THEN [raises |-> "ValueError"]
    ELSE [raises |-> "none", df |-> RsiCalculate(c, cs)]

BbCall(c, cs, ab) ==
    IF MissingClose(ab) THEN [raises |-> "ValueError"]
    ELSE [raises |-> "none", df |-> BbCalculate(c, cs)]

(* The value dictionary of the Feature, read from the last row. *)
RsiFeatureOn(row) ==
    [raises |-> "none",
     value |-> [rsi |-> row.rsi, signal |-> row.signal,
                intensity |-> row.signal_intensity, price |-> row.close]]

RsiCreateFeature(c, cs, ab) ==
    IF MissingClose(ab) THEN [raises |-> "ValueError"]
    ELSE IF Len(cs) = 0 THEN [raises |-> "IndexError"]
    ELSE RsiFeatureOn(Last(RsiCalculate(c, cs)))

BbFeatureOn(row) ==
    [raises |-> "none",
     value |-> [bb_upper |-> row.bb_upper, bb_mid |-> row.bb_mid,
                bb_lower |-> row.bb_lower, bb_width |-> row.bb_width,
                band_pos |-> row.band_pos, signal |-> row.signal,
                intensity |-> row.signal_intensity, price |-> row.close]]

BbCreateFeature(c, cs, ab) ==
    IF MissingClose(ab) THEN [raises |-> "ValueError"]
    ELSE IF Len(cs) = 0 THEN [raises |-> "IndexError"]
    ELSE BbFeatureOn(Last(BbCalculate(c, cs)))

(* The gate taken as intensity > min_intensity. *)
RsiSignalOfStrict(signal_dir, intensity, min_intensity) ==
    [raises |-> "none", signal_dir |-> signal_dir,
     intensity |-> intensity, min_intensity |-> min_intensity,
     ret |-> IF Abs(signal_dir) = 1 /\ EGt(intensity, min_intensity)
               THEN [category |-> "rsi",
                     value |-> IF signal_dir = 1 THEN intensity
                               ELSE ENeg(intensity)]
               ELSE None]

(* Lines 91-102 on the last row of the frame. *)
RsiSignalOf(signal_dir, intensity, min_intensity) ==
    [raises |-> "none", signal_dir |-> signal_dir,
     intensity |-> intensity, min_intensity |-> min_intensity,
     ret |-> IF Abs(signal_dir) = 1 /\ EGe(intensity, min_intensity)
               THEN [category |-> "rsi",
                     value |-> IF signal_dir = 1 THEN intensity
                               ELSE ENeg(intensity)]
               ELSE None]

RsiSignalOn(row, min_intensity) ==
    RsiSignalOf(row.signal, row.signal_intensity, min_intensity)

RsiCreateSignal(c, cs, ab, min_intensity) ==
    IF MissingClose(ab) THEN [raises |-> "ValueError"]
    ELSE IF Len(cs) = 0 THEN [raises |-> "IndexError"]
    ELSE RsiSignalOn(Last(RsiCalculate(c, cs)), min_intensity)

(* Lines 89-100 on the last row of the frame. *)
BbSignalOf(signal_dir, intensity, min_intensity) ==
    [raises |-> "none", signal_dir |-> signal_dir,
     intensity |-> intensity, min_intensity |-> min_intensity,
     ret |-> IF Abs(signal_dir) = 1 /\ SGe(intensity, S0(min_intensity))
               THEN [category |-> "bb",
                     value |-> SScale(signal_dir, intensity)]
               ELSE None]

BbSignalOn(row, min_intensity) ==
    BbSignalOf(row.signal, row.signal_intensity, min_intensity)

BbCreateSignal(c, cs, ab, min_intensity) ==
    IF MissingClose(ab) THEN [raises |-> "ValueError"]
    ELSE IF Len(cs) = 0 THEN [raises |-> "IndexError"]
    ELSE BbSignalOn(Last(BbCalculate(c, cs)), min_intensity)

----------------------------------------------------------------------------
(* Configurations and call arguments. *)

RsiConfigs ==
    { [length |-> 2, oversold |-> 30, overbought |-> 70],
      [length |-> 3, oversold |-> 30, overbought |-> 70],
      [length |-> 2, oversold |-> 70, overbought |-> 30],
      [length |-> 2, oversold |-> 0,  overbought |-> 100] }

BbConfigs ==
    { [length |-> 2, mult |-> 1],
      [length |-> 3, mult |-> 1],
      [length |-> 3, mult |-> 2],
      [length |-> 3, mult |-> 0] }

EmaConfigs ==
    { [ema_fast |-> 1, ema_slow |-> 2, volume_period |-> 2,
       volume_multiplier |-> I(1), adx_period |-> 2, adx_threshold |-> 25],
      [ema_fast |-> 2, ema_slow |-> 1, volume_period |-> 1,
       volume_multiplier |-> Q(1, 2), adx_period |-> 1, adx_threshold |-> 25],
      [ema_fast |-> 1, ema_slow |-> 2, volume_period |-> 3,
       volume_multiplier |-> I(1), adx_period |-> 4, adx_threshold |-> 25] }

MacdConfigs ==
    { [macd_fast |-> 1, macd_slow |-> 2, macd_signal |-> 2, rsi_period |-> 2],
      [macd_fast |-> 2, macd_slow |-> 1, macd_signal |-> 1, rsi_period |-> 3],
      [macd_fast |-> 1, macd_slow |-> 3, macd_signal |-> 2, rsi_period |-> 1] }

Configs(k) ==
    CASE k = "rsi"  -> RsiConfigs
      [] k = "bb"   -> BbConfigs
      [] k = "ema"  -> EmaConfigs
      [] k = "macd" -> MacdConfigs

MinIntensities == {I(0), Q(3, 5), I(1)}

NoResult == [op |-> "none"]

EmptyDict == [k \in {} |-> 0]

----------------------------------------------------------------------------
(* The state machine. *)

(* A column can be absent from the table the collaborator hands over: close *)
(* for any evaluator, volume for the one evaluator that reads it.          *)
Absent(k) == IF k = "ema" THEN {"none", "close", "volume"}
             ELSE {"none", "close"}

(* The task and the notifier when a behaviour follows an evaluator. *)
ScreenerIdle == pools = <<>> /\ cleaned = NoResult /\ filtered = NoResult

NotifierIdle == notifier = None /\ call = NoResult /\ posts = <<>>

Init ==
    /\ kind \in Kinds
    /\ cfg \in Configs(kind)
    /\ absent \in Absent(kind)
    /\ candles = <<>>
    /\ frame = CandleTable(<<>>, absent)
    /\ result = NoResult
    /\ processed_data = EmptyDict
    /\ raised = "none"
    /\ ScreenerIdle
    /\ NotifierIdle

(* The volume column matters to the EMA-crossover controller alone, and   *)
(* there only when avg_volume is taken over more than the row itself.      *)
VolumeRead == kind = "ema" /\ cfg.volume_period > 1 /\ absent = "none"

(* The trend-strength index is defined on row t of the EMA-crossover       *)
(* controller's frame from row 2 * adx_period on.                          *)
AdxDefined(t) == kind = "ema" /\ t >= 2 * cfg.adx_period /\ absent = "none"

CloseValues == IF absent = "close" THEN {1}
               ELSE IF kind = "ema" THEN EmaCloses ELSE Closes

(* The data collaborator extends the window by one candle and holds a new  *)
(* table for it.  A column the evaluator never reads, or whose value       *)
(* cannot reach a comparison, is held at one value.  What the previous     *)
(* call returned or raised went to its caller; processed_data stays with   *)
(* the controller.                                                         *)
AppendCandle ==
    /\ Len(candles) < MaxRows
    /\ \E cl \in CloseValues :
       \E vo \in (IF VolumeRead THEN Volumes ELSE {1}) :
       \E ad \in (IF AdxDefined(Len(candles) + 1) THEN AdxValues ELSE {0}) :
          candles' = Append(candles, [close |-> cl, volume |-> vo, adx |-> ad])
    /\ frame' = CandleTable(candles', absent)
    /\ result' = NoResult
    /\ raised' = "none"
    /\ UNCHANGED <<kind, cfg, absent, processed_data>>
    /\ UNCHANGED <<screener_vars, notifier_vars>>

(* The outcome of a call of a feature: what it returned or raised.  The    *)
(* features work on candles.copy(), so the table stays as it was.          *)
Returned(op, r) ==
    /\ result' = [op |-> op] @@ r
    /\ raised' = r.raises
    /\ UNCHANGED <<kind, cfg, absent, candles, frame, processed_data>>
    /\ UNCHANGED <<screener_vars, notifier_vars>>

RSI_calculate ==
    /\ kind = "rsi"
    /\ Returned("calculate", RsiCall(cfg, candles, absent))

BB_calculate ==
    /\ kind = "bb"
    /\ Returned("calculate", BbCall(cfg, candles, absent))

RSI_create_feature ==
    /\ kind = "rsi"
    /\ Returned("create_feature", RsiCreateFeature(cfg, candles, absent))

BB_create_feature ==
    /\ kind = "bb"
    /\ Returned("create_feature", BbCreateFeature(cfg, candles, absent))

RSI_create_signal ==
    /\ kind = "rsi"
    /\ \E m \in MinIntensities :
          Returned("create_signal", RsiCreateSignal(cfg, candles, absent, m))

BB_create_signal ==
    /\ kind = "bb"
    /\ \E m \in MinIntensities :
          Returned("create_signal", BbCreateSignal(cfg, candles, absent, m))

(* The outcome of a cycle.  One that raises leaves processed_data as it    *)
(* was; the frame is the object the indicator columns were appended to.    *)
Cycle(r) ==
    /\ processed_data' =
          IF r.raises = "none"
            THEN [signal |-> r.signal, features |-> r.features]
            ELSE processed_data
    /\ frame' = IF r.raises = "none" THEN r.features ELSE r.frame
    /\ raised' = r.raises
    /\ result' = [op |-> "update_processed_data"]
    /\ UNCHANGED <<kind, cfg, absent, candles>>
    /\ UNCHANGED <<screener_vars, notifier_vars>>

(* get_candles_df hands over the table the collaborator holds, which is    *)
(* the object of the previous cycle when the window has not moved, or a    *)
(* new table of the same candles.                                          *)
Handed == {frame, CandleTable(candles, absent)}

EMA_update_processed_data ==
    /\ kind = "ema"
    /\ \E df \in Handed : Cycle(EmaUpdate(cfg, df, candles, absent))

MACD_update_processed_data ==
    /\ kind = "macd"
    /\ \E df \in Handed : Cycle(MacdUpdate(cfg, df, candles, absent))

Next ==
    \/ AppendCandle
    \/ RSI_calculate
    \/ BB_calculate
    \/ RSI_create_feature
    \/ BB_create_feature
    \/ RSI_create_signal
    \/ BB_create_signal
    \/ EMA_update_processed_data
    \/ MACD_update_processed_data

Spec == Init /\ [][Next]_vars

----------------------------------------------------------------------------
(* What the properties read: the frame a calculate call returned, the      *)
(* outcome of a create_signal call, and what a controller cycle stored.    *)

Directions == {-1, 0, 1}

Calculated == result.op = "calculate" /\ result.raises = "none"

Created == result.op = "create_signal" /\ result.raises = "none"

Processed == "signal" \in DOMAIN processed_data

(* An RSI intensity or signal value x lies in [lo, hi]. *)
EWithin(x, lo, hi) == IsFinite(x.q) /\ EGe(x, I(lo)) /\ ELe(x, I(hi))

(* A Bollinger intensity or signal value x lies in [lo, hi]. *)
SWithin(x, lo, hi) ==
    IsFinite(x.a) /\ SGe(x, S0(I(lo))) /\ SLe(x, S0(I(hi)))

(* The intensity of a row of a frame of the feature `k` lies in [0, 1]. *)
IntensityInUnitRange(k, row) ==
    IF k = "rsi" THEN EWithin(row.signal_intensity, 0, 1)
    ELSE SWithin(row.signal_intensity, 0, 1)

IntensityIsZero(k, row) ==
    IF k = "rsi" THEN row.signal_intensity = E0(I(0))
    ELSE SurdZero(row.signal_intensity)

----------------------------------------------------------------------------
(* C1: every row of every frame an evaluator produces (RSIFeature and      *)
(* BollingerFeature calculate, the features frame of the two controllers)  *)
(* carries a signal that is one of -1, 0, +1, and so does the scalar the   *)
(* controllers store in processed_data["signal"].                          *)
C1_DirectionInRange ==
    /\ Calculated =>
          \A t \in 1..Len(result.df) : result.df[t].signal \in Directions
    /\ Processed =>
          /\ processed_data.signal \in Directions
          /\ \A t \in 1..Len(processed_data.features) :
                processed_data.features[t].signal \in Directions

(* A controller has stored -1 as its scalar, from a features frame that    *)
(* also holds a long row and a neutral row.                                *)
C1_Witness ==
    /\ Processed
    /\ processed_data.signal = -1
    /\ \E t, u \in 1..Len(processed_data.features) :
          /\ processed_data.features[t].signal = 1
          /\ processed_data.features[u].signal = 0

----------------------------------------------------------------------------
(* C2: in every frame RSIFeature.calculate or BollingerFeature.calculate   *)
(* returns, signal_intensity is on every row a finite number in [0, 1],    *)
(* and it is 0 on every row whose signal is 0.                             *)
C2_IntensityInUnitRange ==
    Calculated =>
        \A t \in 1..Len(result.df) :
            /\ IntensityInUnitRange(kind, result.df[t])
            /\ result.df[t].signal = 0 => IntensityIsZero(kind, result.df[t])

(* A Bollinger row with a non-zero signal on a band of width 0, where the  *)
(* quotient is infinite and the clip brings it to 1, next to a row whose   *)
(* signal and intensity are 0.                                             *)
C2_Witness ==
    /\ Calculated
    /\ kind = "bb"
    /\ \E t, u \in 1..Len(result.df) :
          /\ result.df[t].signal # 0
          /\ SurdZero(SSub(result.df[t].bb_upper, result.df[t].bb_lower))
          /\ result.df[t].signal_intensity = S0(I(1))
          /\ result.df[u].signal = 0

----------------------------------------------------------------------------
(* The gate of create_signal on what it read from the latest row. *)
C3_Gate ==
    /\ Abs(result.signal_dir) = 1
    /\ IF kind = "rsi" THEN EGe(result.intensity, result.min_intensity)
       ELSE SGe(result.intensity, S0(result.min_intensity))

(* The value of the Signal returned. *)
C3_Value ==
    IF kind = "rsi"
      THEN /\ result.ret.value.q =
                 Mul(I(result.signal_dir), result.intensity.q)
           /\ result.ret.value.e = result.signal_dir * result.intensity.e
           /\ EWithin(result.ret.value, -1, 1)
      ELSE /\ SurdZero(SSub(result.ret.value,
                            SScale(result.signal_dir, result.intensity)))
           /\ SWithin(result.ret.value, -1, 1)

(* C3: create_signal returns a Signal exactly when the latest row has      *)
(* |signal| = 1 and signal_intensity >= min_intensity (equality included); *)
(* the Signal's value is signal * signal_intensity and lies in [-1, 1];    *)
(* otherwise it returns None.                                              *)
C3_SignalIffGate ==
    Created =>
        /\ (result.ret # None) <=> C3_Gate
        /\ (result.ret # None) => C3_Value

(* An RSI Signal emitted with the intensity exactly at min_intensity. *)
C3_Witness ==
    /\ Created
    /\ kind = "rsi"
    /\ result.ret # None
    /\ result.intensity = E0(result.min_intensity)
    /\ result.ret.value = E0(I(1))

----------------------------------------------------------------------------
(* The longest configured lookback of the evaluator the behaviour follows. *)
Lookback ==
    CASE kind = "rsi"  -> cfg.length
      [] kind = "bb"   -> cfg.length
      [] kind = "ema"  -> Max2(Max2(cfg.ema_fast, cfg.ema_slow),
                               Max2(cfg.volume_period, cfg.adx_period))
      [] kind = "macd" -> Max2(cfg.macd_slow + cfg.macd_signal, cfg.rsi_period)

(* The column `name` of a row, undefined when the frame has no such column. *)
Field(row, name) == IF name \in DOMAIN row THEN row[name] ELSE NaN

(* C4: every row inside the warm-up window has signal 0, in every          *)
(* evaluator and for every series.  The rows taken here are those with     *)
(* fewer than `lookback` records up to and including the row itself, the   *)
(* narrowest reading of "row index below the longest configured lookback". *)
C4_WarmUpRowsNeutral ==
    /\ Calculated =>
          \A t \in 1..Len(result.df) :
              t < Lookback => result.df[t].signal = 0
    /\ Processed =>
          \A t \in 1..Len(processed_data.features) :
              t < Lookback => processed_data.features[t].signal = 0

----------------------------------------------------------------------------
(* What an evaluation reports for the latest row: signal 0 and, where the  *)
(* evaluator has one, intensity 0.                                         *)
C5_Neutral ==
    CASE kind \in {"rsi", "bb"} /\ result.op = "calculate" ->
             /\ Last(result.df).signal = 0
             /\ IntensityIsZero(kind, Last(result.df))
      [] kind \in {"rsi", "bb"} /\ result.op = "create_signal" ->
             /\ result.raises = "none"
             /\ result.signal_dir = 0
             /\ IF kind = "rsi" THEN result.intensity = E0(I(0))
                ELSE SurdZero(result.intensity)
      [] kind \in {"rsi", "bb"} /\ result.op = "create_feature" ->
             /\ result.raises = "none"
             /\ result.value.signal = 0
             /\ IF kind = "rsi" THEN result.value.intensity = E0(I(0))
                ELSE SurdZero(result.value.intensity)
      [] kind \in {"ema", "macd"} ->
             /\ Processed
             /\ processed_data.signal = 0
      [] OTHER -> TRUE

(* C5: an evaluation of a window of at least one row and fewer rows than   *)
(* the evaluator's lookback, with every column present, does not raise,    *)
(* and reports signal 0 and intensity 0 for the latest row.  A step that   *)
(* leaves the window as it is is an evaluation of it.                      *)
C5_ShortSnapshotNeutral ==
    [][(/\ candles' = candles
        /\ absent = "none"
        /\ Len(candles) >= 1
        /\ Len(candles) < Lookback)
          => (raised' = "none" /\ C5_Neutral')]_vars

----------------------------------------------------------------------------
(* The entry rule of the trend-crossover evaluator as the claim states it, *)
(* on row t of a features frame; adx is the trend-strength column, and is  *)
(* undefined on a frame that has none.                                     *)
C6_Filters(df, t) ==
    /\ Gt(df[t].volume, Mul(df[t].avg_volume, cfg.volume_multiplier))
    /\ Gt(Field(df[t], "ADX"), I(cfg.adx_threshold))

C6_Long(df, t) ==
    /\ t > 1
    /\ Gt(df[t].EMA_fast, df[t].EMA_slow)
    /\ Le(df[t - 1].EMA_fast, df[t - 1].EMA_slow)
    /\ C6_Filters(df, t)

C6_Short(df, t) ==
    /\ t > 1
    /\ Lt(df[t].EMA_fast, df[t].EMA_slow)
    /\ Ge(df[t - 1].EMA_fast, df[t - 1].EMA_slow)
    /\ C6_Filters(df, t)

(* C6: in the frame the EMA-crossover controller stores, the signal of     *)
(* row t is +1 exactly when fast(t) > slow(t), fast(t-1) <= slow(t-1),     *)
(* volume(t) > avg_volume(t) * volume_multiplier and adx(t) >              *)
(* adx_threshold; -1 exactly when fast(t) < slow(t), fast(t-1) >=          *)
(* slow(t-1) and the same two filters hold; and 0 otherwise.               *)
C6_EmaEntryRule ==
    (kind = "ema" /\ Processed) =>
        \A t \in 1..Len(processed_data.features) :
            processed_data.features[t].signal =
                IF C6_Long(processed_data.features, t) THEN 1
                ELSE IF C6_Short(processed_data.features, t) THEN -1
                ELSE 0

----------------------------------------------------------------------------
(* The entry rule of the momentum evaluator as the claim states it, on row *)
(* t of a features frame: MACD is the MACD line, MACDs the signal line and *)
(* MACDh the histogram; all are undefined on a frame without them.         *)
C7_Long(df, t) ==
    /\ t > 1
    /\ Gt(Field(df[t], "MACD"), Field(df[t], "MACDs"))
    /\ Le(Field(df[t - 1], "MACD"), Field(df[t - 1], "MACDs"))
    /\ Gt(Field(df[t], "MACDh"), Field(df[t - 1], "MACDh"))
    /\ Gt(df[t].RSI, I(50))

C7_Short(df, t) ==
    /\ t > 1
    /\ Lt(Field(df[t], "MACD"), Field(df[t], "MACDs"))
    /\ Ge(Field(df[t - 1], "MACD"), Field(df[t - 1], "MACDs"))
    /\ Lt(Field(df[t], "MACDh"), Field(df[t - 1], "MACDh"))
    /\ Lt(df[t].RSI, I(50))

(* The MACD line changes sign between rows t-1 and t. *)
SignChange(df, t) ==
    /\ t > 1
    /\ Lt(Mul(Field(df[t], "MACD"), Field(df[t - 1], "MACD")), I(0))

(* C7: in the frame the MACD-momentum controller stores, on every row t    *)
(* where the MACD line does not change sign between t-1 and t, the signal  *)
(* is +1 exactly when MACD(t) > signal(t), MACD(t-1) <= signal(t-1),       *)
(* histogram(t) > histogram(t-1) and oscillator(t) > 50; -1 exactly when   *)
(* MACD(t) < signal(t), MACD(t-1) >= signal(t-1), histogram(t) <           *)
(* histogram(t-1) and oscillator(t) < 50; and 0 otherwise.                 *)
C7_MacdEntryRule ==
    (kind = "macd" /\ Processed) =>
        \A t \in 1..Len(processed_data.features) :
            ~SignChange(processed_data.features, t) =>
                processed_data.features[t].signal =
                    IF C7_Long(processed_data.features, t) THEN 1
                    ELSE IF C7_Short(processed_data.features, t) THEN -1
                    ELSE 0

----------------------------------------------------------------------------
(* C8: in the frame the MACD-momentum controller stores, every row t with  *)
(* MACD(t) * MACD(t-1) < 0 has signal 0, whatever its entry conditions.    *)
C8_ExitWins ==
    (kind = "macd" /\ Processed) =>
        \A t \in 1..Len(processed_data.features) :
            SignChange(processed_data.features, t) =>
                processed_data.features[t].signal = 0

(* The conditions of lines 111-124 on row t, on the columns the controller *)
(* reads them from.                                                        *)
C8_EntryTaken(df, t) ==
    \/ MacdLong(df[t].MACD, df[t].MACDh, df[t - 1].MACD, df[t - 1].MACDh,
                df[t].MACDs, df[t - 1].MACDs, df[t].RSI)
    \/ MacdShort(df[t].MACD, df[t].MACDh, df[t - 1].MACD, df[t - 1].MACDh,
                 df[t].MACDs, df[t - 1].MACDs, df[t].RSI)

(* A stored frame with a row on which the MACD line changes sign and an    *)
(* entry condition of the controller holds, and whose signal is 0.         *)
C8_Witness ==
    /\ kind = "macd"
    /\ Processed
    /\ \E t \in 1..Len(processed_data.features) :
          /\ SignChange(processed_data.features, t)
          /\ C8_EntryTaken(processed_data.features, t)
          /\ processed_data.features[t].signal = 0

----------------------------------------------------------------------------
(* C9: in every frame RSIFeature.calculate returns, for every configured   *)
(* pair of thresholds, a row's signal is +1 when rsi < oversold, -1 when   *)
(* rsi > overbought, and 0 otherwise (rsi equal to a threshold or          *)
(* undefined).                                                             *)
C9_OscillatorRule ==
    (kind = "rsi" /\ Calculated) =>
        \A t \in 1..Len(result.df) :
            /\ ELt(result.df[t].rsi, I(cfg.oversold)) =>
                  result.df[t].signal = 1
            /\ EGt(result.df[t].rsi, I(cfg.overbought)) =>
                  result.df[t].signal = -1
            /\ (/\ ~ELt(result.df[t].rsi, I(cfg.oversold))
                /\ ~EGt(result.df[t].rsi, I(cfg.overbought))) =>
                  result.df[t].signal = 0

(* C9, amended: a row's signal is -1 when rsi > overbought; +1 when        *)
(* rsi < oversold and rsi is not above overbought; and 0 otherwise (rsi    *)
(* equal to a threshold or undefined), for every pair of thresholds.       *)
C9_OverboughtFirst ==
    (kind = "rsi" /\ Calculated) =>
        \A t \in 1..Len(result.df) :
            result.df[t].signal =
                IF EGt(result.df[t].rsi, I(cfg.overbought)) THEN -1
                ELSE IF ELt(result.df[t].rsi, I(cfg.oversold)) THEN 1
                ELSE 0

(* A frame under oversold > overbought with a row whose rsi lies strictly  *)
(* between the two thresholds and whose signal is -1, and a row whose rsi  *)
(* is undefined and whose signal is 0.                                     *)
C9_Witness ==
    /\ kind = "rsi"
    /\ Calculated
    /\ cfg.oversold > cfg.overbought
    /\ \E t, u \in 1..Len(result.df) :
          /\ ELt(result.df[t].rsi, I(cfg.oversold))
          /\ EGt(result.df[t].rsi, I(cfg.overbought))
          /\ result.df[t].signal = -1
          /\ IsNaN(result.df[u].rsi.q)
          /\ result.df[u].signal = 0

----------------------------------------------------------------------------
----------------------------------------------------------------------------
(* A call or a cycle has acted on the present window. *)
Evaluated == result.op # "none"

(* The call returned nothing and stored nothing: result holds the name of  *)
(* the operation and the error alone.                                      *)
NothingProduced ==
    /\ DOMAIN result \subseteq {"op", "raises"}
    /\ ~Processed

(* C11: when a required column is absent from the table (close for any     *)
(* evaluator, volume for the EMA-crossover controller), every call and     *)
(* every cycle raises, returns no frame, Feature or Signal, and writes     *)
(* nothing to processed_data.                                              *)
C11_MissingColumnRaises ==
    (absent # "none" /\ Evaluated) => (raised # "none" /\ NothingProduced)

C11_Witness ==
    /\ kind = "ema"
    /\ absent = "volume"
    /\ Len(candles) >= cfg.ema_slow
    /\ Evaluated
    /\ raised = "KeyError"

----------------------------------------------------------------------------
(* A step is a second invocation of the operation that acted last, on the  *)
(* window as it is and with the same argument.                             *)
Reinvoked ==
    /\ candles' = candles
    /\ Evaluated
    /\ result'.op = result.op
    /\ \A f \in ({"min_intensity"} \cap DOMAIN result) \cap DOMAIN result' :
          result'[f] = result[f]

(* C12: a second invocation of calculate, create_feature, create_signal or *)
(* update_processed_data on the same window and configuration returns,     *)
(* raises and stores what the first did, whether the controller is handed  *)
(* a new table or the object it appended its columns to.                   *)
C12_Idempotent ==
    [][Reinvoked => /\ result' = result
                    /\ raised' = raised
                    /\ processed_data' = processed_data]_vars

C12_Witness ==
    /\ kind = "ema"
    /\ Evaluated
    /\ raised = "none"
    /\ frame # CandleTable(candles, absent)
    /\ frame \in Handed
    /\ processed_data.features = frame
    /\ processed_data.signal # 0

----------------------------------------------------------------------------
(* The candle columns of a features frame. *)
CandleColumns(df) ==
    Series([t \in 1..Len(df) |->
               [k \in {"timestamp", "open", "high", "low", "close", "volume"}
                   |-> df[t][k]]])

(* What processed_data exposes was computed from the window cs: the frame  *)
(* is that of cs and the signal is the one of its last row.                *)
ExposedFrom(pd, cs) ==
    /\ CandleColumns(pd.features) = GetCandlesDf(cs)
    /\ pd.signal = Last(pd.features).signal

(* C13: after a cycle of a controller, whether it returned or raised, a    *)
(* direction exposed in processed_data is the one computed from the        *)
(* window of that cycle.  A step of a controller that leaves the window as *)
(* it is is a cycle.                                                       *)
C13_ExposedIsLatest ==
    [][(/\ kind \in {"ema", "macd"}
        /\ candles' = candles
        /\ Processed')
          => ExposedFrom(processed_data', candles')]_vars

----------------------------------------------------------------------------
(* The Bollinger value x equals the rational q. *)
SEquals(x, q) == SurdZero(SSub(x, S0(q)))

(* C14: BollingerFeature.calculate on a table with a close column does     *)
(* not raise, and on every row whose close equals the moving average       *)
(* bb_mid the band position is 0.5 and the signal is 0.                    *)
C14_AtMeanHalf ==
    (kind = "bb" /\ absent = "none" /\ result.op = "calculate") =>
        /\ raised = "none"
        /\ \A t \in 1..Len(result.df) :
              result.df[t].close = result.df[t].bb_mid =>
                  /\ SEquals(result.df[t].band_pos, Q(1, 2))
                  /\ result.df[t].signal = 0

----------------------------------------------------------------------------
(* C15: BollingerFeature.calculate on a table with a close column does     *)
(* not raise, and on every row whose band is degenerate (bb_upper equal to *)
(* bb_lower) the signal intensity is 0, wherever close lies.               *)
C15_DegenerateBandZero ==
    (kind = "bb" /\ absent = "none" /\ result.op = "calculate") =>
        /\ raised = "none"
        /\ \A t \in 1..Len(result.df) :
              SurdZero(SSub(result.df[t].bb_upper, result.df[t].bb_lower)) =>
                  SurdZero(result.df[t].signal_intensity)

----------------------------------------------------------------------------
(* The EMA-crossover controller on a linearly rising window.               *)

(* The number of bars of the rising window. *)
RampBars == 60

(* Bar t of RampBars closes rising linearly from 100 to 160, in units of   *)
(* 1 / (RampBars - 1) so that every close is an integer; the comparisons   *)
(* of the controller do not depend on the unit.  The volume rises by one   *)
(* a bar and the trend-strength index is 30 wherever it is defined.        *)
RampBar(t) ==
    [close  |-> 100 * (RampBars - 1) + (160 - 100) * (t - 1),
     volume |-> t,
     adx    |-> 30]

(* ema_fast = 12 and ema_slow = 26, with filters that pass on every bar    *)
(* on which they are defined: from bar 2, from bar 26, and with the        *)
(* default periods (volume 20, ADX 14).                                    *)
RampConfigs ==
    { [ema_fast |-> 12, ema_slow |-> 26, volume_period |-> 1,
       volume_multiplier |-> Q(1, 2), adx_period |-> 1, adx_threshold |-> 25],
      [ema_fast |-> 12, ema_slow |-> 26, volume_period |-> 2,
       volume_multiplier |-> I(1), adx_period |-> 13, adx_threshold |-> 25],
      [ema_fast |-> 12, ema_slow |-> 26, volume_period |-> 20,
       volume_multiplier |-> I(1), adx_period |-> 14, adx_threshold |-> 25] }

InitRamp ==
    /\ kind = "ema"
    /\ cfg \in RampConfigs
    /\ absent = "none"
    /\ candles = <<>>
    /\ frame = CandleTable(<<>>, absent)
    /\ result = NoResult
    /\ processed_data = EmptyDict
    /\ raised = "none"
    /\ ScreenerIdle
    /\ NotifierIdle

RampCandle ==
    /\ Len(candles) < RampBars
    /\ candles' = Append(candles, RampBar(Len(candles) + 1))
    /\ frame' = CandleTable(candles', absent)
    /\ result' = NoResult
    /\ raised' = "none"
    /\ UNCHANGED <<kind, cfg, absent, processed_data>>
    /\ UNCHANGED <<screener_vars, notifier_vars>>

NextRamp ==
    \/ RampCandle
    \/ EMA_update_processed_data

SpecRamp == InitRamp /\ [][NextRamp]_vars

(* The rows of the exposed frame with signal s. *)
RowsWithSignal(s) ==
    {t \in 1..Len(processed_data.features) :
        processed_data.features[t].signal = s}

(* A cycle has stored the frame of the whole rising window. *)
RampProcessed ==
    /\ Len(candles) = RampBars
    /\ Processed
    /\ Len(processed_data.features) = RampBars

(* C16: with ema_fast = 12 and ema_slow = 26 on the 60-bar window rising   *)
(* linearly from 100 to 160, volume and trend-strength filters passing,    *)
(* the stored frame has exactly one bar with signal +1 and signal 0 on     *)
(* every other bar.                                                        *)
C16_OneLongBar ==
    RampProcessed =>
        /\ Cardinality(RowsWithSignal(1)) = 1
        /\ Cardinality(RowsWithSignal(0)) = RampBars - 1

----------------------------------------------------------------------------
(* C17: after a call of a feature or a cycle of a controller the candle    *)
(* table the evaluator was handed is as the collaborator built it: the     *)
(* candle columns alone, with their values.                                *)
C17_InputUnchanged ==
    Evaluated => frame = CandleTable(candles, absent)

----------------------------------------------------------------------------
(* The closes of the window rise, or fall, from every row to the next. *)
StrictlyIncreasing ==
    /\ Len(candles) >= 2
    /\ \A t \in 2..Len(candles) : candles[t].close > candles[t - 1].close

StrictlyDecreasing ==
    /\ Len(candles) >= 2
    /\ \A t \in 2..Len(candles) : candles[t].close < candles[t - 1].close

(* The rsi of a row is defined. *)
RsiDefined(row) == ~IsNaN(row.rsi.q)

(* The RSI value x is not above the RSI value y. *)
ENotAbove(x, y) == Lt(x.q, y.q) \/ (x.q = y.q /\ x.e <= y.e)

(* C18: RSIFeature.calculate on a table with a close column does not       *)
(* raise (a zero average loss included), and the rsi of every defined row  *)
(* lies in [0, 100]; on strictly increasing closes it is at least 50 on    *)
(* every defined row, on strictly decreasing closes it is at most 50 and   *)
(* never rises from one row to the next.                                   *)
C18_RsiBounded ==
    (kind = "rsi" /\ absent = "none" /\ result.op = "calculate") =>
        /\ raised = "none"
        /\ \A t \in 1..Len(result.df) :
              RsiDefined(result.df[t]) =>
                  /\ EWithin(result.df[t].rsi, 0, 100)
                  /\ StrictlyIncreasing => EGe(result.df[t].rsi, I(50))
                  /\ StrictlyDecreasing =>
                        /\ ELe(result.df[t].rsi, I(50))
                        /\ (t > 2 => ENotAbove(result.df[t].rsi,
                                               result.df[t - 1].rsi))

C18_Witness ==
    /\ kind = "rsi"
    /\ Calculated
    /\ StrictlyIncreasing
    /\ Len(candles) > cfg.length
    /\ RsiDefined(Last(result.df))
    /\ Last(result.df).rsi = [q |-> I(100), e |-> -1]

----------------------------------------------------------------------------
(* PoolsScreenerTask.clean_pools                                           *)
(* src/app/tasks/data_collection/pools_screener.py                         *)

(* The largest number of rows of the fetched table. *)
MaxPools == 2

(* A missing value of the API's response. *)
Null == "null"

(* The values of the API's value columns: numbers as text, a missing       *)
(* value, and text that is no number.                                      *)
FdvValues == {"0", "3", "n/a"}

VolumeValues == {"0.0", "2", Null}

ReserveValues == {"0", "2"}

(* Pool names, character by character: "A / SOL", "B/USDC", "SOL". *)
PoolNames ==
    { <<"A", " ", "/", " ", "S", "O", "L">>,
      <<"B", "/", "U", "S", "D", "C">>,
      <<"S", "O", "L">> }

(* self.quote_asset *)
QuoteAsset == <<"S", "O", "L">>

(* What the remaining columns (pool_created_at, transactions_h24_buys and  *)
(* _sells, price_change_percentage_h1 and _h24) hold in every row: values  *)
(* pandas converts, or text it does not.                                   *)
RestValues == {"values", "text"}

(* pd.to_numeric raises ValueError on text that is no number. *)
Parsable(x) == x \in {"0", "0.0", "2", "3", Null}

(* pd.to_numeric on one value: a number, or NaN for a missing value. *)
ToNumeric(x) ==
    CASE x = "0"   -> I(0)
      [] x = "0.0" -> I(0)
      [] x = "2"   -> I(2)
      [] x = "3"   -> I(3)
      [] x = Null  -> NaN

(* str.split(sep): the pieces between the separators, from character i on, *)
(* cur being the piece begun.                                              *)
RECURSIVE SplitFrom(_, _, _, _)
SplitFrom(s, sep, i, cur) ==
    IF i > Len(s) THEN <<cur>>
    ELSE IF s[i] = sep THEN <<cur>> \o SplitFrom(s, sep, i + 1, <<>>)
    ELSE SplitFrom(s, sep, i + 1, Append(cur, s[i]))

Split(s, sep) == SplitFrom(s, sep, 1, <<>>)

(* str.strip() *)
RECURSIVE StripLeft(_)
StripLeft(s) == IF s # <<>> /\ Head(s) = " " THEN StripLeft(Tail(s)) ELSE s

RECURSIVE StripRight(_)
StripRight(s) ==
    IF s # <<>> /\ Last(s) = " " THEN StripRight(SubSeq(s, 1, Len(s) - 1))
    ELSE s

Strip(s) == StripLeft(StripRight(s))

(* The denominator taken for the numerator in the test for zero. *)
SafeRatioOnNumerator(num, den) == IF num # I(0) THEN Div(num, den) ELSE I(0)

(* x[num] / x[den] if x[den] != 0 else 0; NaN != 0 holds. *)
SafeRatio(num, den) == IF den # I(0) THEN Div(num, den) ELSE I(0)

(* Lines 55-57 and 59-60 raise on this row: a value that is no number, or  *)
(* a name with no second piece.                                            *)
RowRaises(raw) ==
    \/ ~Parsable(raw.fdv_usd)
    \/ ~Parsable(raw.volume_usd_h24)
    \/ ~Parsable(raw.reserve_in_usd)
    \/ Len(Split(raw.name, "/")) < 2

(* Lines 63-74 on the converted columns of one row. *)
WithRatios(name, parts, fdv, volume, reserve) ==
    [name |-> name,
     base |-> Strip(parts[1]),
     quote |-> Strip(parts[2]),
     fdv_usd |-> fdv,
     volume_usd_h24 |-> volume,
     reserve_in_usd |-> reserve,
     volume_liquidity_ratio |-> SafeRatio(volume, reserve),
     fdv_liquidity_ratio |-> SafeRatio(fdv, reserve),
     fdv_volume_ratio |-> SafeRatio(fdv, volume)]

(* Lines 55-74 on one row. *)
CleanRow(raw) ==
    WithRatios(raw.name, Split(raw.name, "/"), ToNumeric(raw.fdv_usd),
               ToNumeric(raw.volume_usd_h24), ToNumeric(raw.reserve_in_usd))

(* pools[pools['quote'] == self.quote_asset] *)
RECURSIVE QuoteFilter(_)
QuoteFilter(rows) ==
    IF rows = <<>> THEN <<>>
    ELSE IF Head(rows).quote = QuoteAsset
      THEN <<Head(rows)>> \o QuoteFilter(Tail(rows))
    ELSE QuoteFilter(Tail(rows))

CleanRows(table) == Series([i \in 1..Len(table) |-> CleanRow(table[i])])

(* The except branch: the error is logged and an empty frame returned. *)
CleanFailed == [op |-> "clean_pools", logged |-> TRUE, rows |-> <<>>]

(* clean_pools on a table with at least one row. *)
CleanPools(table, rest) ==
    IF rest = "text" \/ \E i \in 1..Len(table) : RowRaises(table[i])
      THEN CleanFailed
    ELSE [op |-> "clean_pools", logged |-> FALSE,
          rows |-> QuoteFilter(CleanRows(table))]

InitPools ==
    /\ pools = [rows |-> <<>>, rest |-> "values"]
    /\ cleaned = NoResult
    /\ filtered = NoResult
    /\ kind = "none"
    /\ cfg = None
    /\ absent = "none"
    /\ candles = <<>>
    /\ frame = <<>>
    /\ result = NoResult
    /\ processed_data = EmptyDict
    /\ raised = "none"
    /\ NotifierIdle

(* The API returns a table with one more pool. *)
FetchPool ==
    /\ Len(pools.rows) < MaxPools
    /\ \E n \in PoolNames, f \in FdvValues, v \in VolumeValues,
          r \in ReserveValues, rest \in RestValues :
          pools' = [rows |-> Append(pools.rows,
                                    [name |-> n, fdv_usd |-> f,
                                     volume_usd_h24 |-> v,
                                     reserve_in_usd |-> r]),
                    rest |-> rest]
    /\ cleaned' = NoResult
    /\ UNCHANGED <<filtered, evaluator_vars, notifier_vars>>

(* clean_pools(pools.copy()).  On a table without rows DataFrame.apply     *)
(* returns a frame, and whether assigning it to a column raises depends on *)
(* the pandas at hand: the result has no rows either way.                  *)
PS_clean_pools ==
    /\ IF Len(pools.rows) = 0
         THEN \E logged \in BOOLEAN :
                 cleaned' = [op |-> "clean_pools", logged |-> logged,
                             rows |-> <<>>]
         ELSE cleaned' = CleanPools(pools.rows, pools.rest)
    /\ UNCHANGED <<pools, filtered, evaluator_vars, notifier_vars>>

NextPools ==
    \/ FetchPool
    \/ PS_clean_pools

SpecPools == InitPools /\ [][NextPools]_vars

(* The ratio of one cleaned row is what the claim states for its           *)
(* numerator and denominator.                                              *)
RatioAsClaimed(ratio, num, den) ==
    /\ den = I(0) => ratio = I(0)
    /\ den # I(0) => ratio = Div(num, den)

(* Every value of the fetched table converts and every name has a quote. *)
Convertible ==
    /\ pools.rest = "values"
    /\ \A i \in 1..Len(pools.rows) : ~RowRaises(pools.rows[i])

(* C19: clean_pools returns without raising; in every row it returns each  *)
(* of the three ratios is 0 when its denominator is 0 and the quotient     *)
(* otherwise; and a table whose values all convert is cleaned without an   *)
(* error, zero denominators included.                                      *)
C19_SafeRatios ==
    cleaned.op = "clean_pools" =>
        /\ \A i \in 1..Len(cleaned.rows) :
              /\ RatioAsClaimed(cleaned.rows[i].volume_liquidity_ratio,
                                cleaned.rows[i].volume_usd_h24,
                                cleaned.rows[i].reserve_in_usd)
              /\ RatioAsClaimed(cleaned.rows[i].fdv_liquidity_ratio,
                                cleaned.rows[i].fdv_usd,
                                cleaned.rows[i].reserve_in_usd)
              /\ RatioAsClaimed(cleaned.rows[i].fdv_volume_ratio,
                                cleaned.rows[i].fdv_usd,
                                cleaned.rows[i].volume_usd_h24)
        /\ (Convertible /\ Len(pools.rows) > 0) => ~cleaned.logged

C19_Witness ==
    /\ cleaned.op = "clean_pools"
    /\ ~cleaned.logged
    /\ \E i, j \in 1..Len(cleaned.rows) :
          /\ cleaned.rows[i].reserve_in_usd = I(0)
          /\ cleaned.rows[i].volume_usd_h24 = I(0)
          /\ cleaned.rows[i].fdv_usd = I(3)
          /\ cleaned.rows[i].fdv_volume_ratio = I(0)
          /\ cleaned.rows[j].reserve_in_usd = I(2)
          /\ cleaned.rows[j].fdv_liquidity_ratio = Q(3, 2)

-----------------------------------------------------------------------------
(* The Telegram notifier. *)

MaxChats == 2

(* A chat id is a string or an integer; None stands for a missing one. *)
ChatStr(s) == [type |-> "str", int |-> 0, str |-> s]

ChatInt(n) == [type |-> "int", int |-> n, str |-> <<>>]

ChatNone == [type |-> "none", int |-> 0, str |-> <<>>]

(* The chat ids a caller passes. *)
ChatIds == {ChatInt(42), ChatInt(-5), ChatStr(<<"4", "2">>), ChatStr(<<"@", "c">>)}

(* The chat_id of the configuration: missing, empty, zero or a chat id. *)
ConfigChatIds == {ChatNone, ChatStr(<<>>), ChatInt(0), ChatInt(42), ChatStr(<<"@", "c">>)}

(* The bot_token of the configuration: missing, empty or a token. *)
BotTokens == {Null, "", "123:abc"}

(* The outcomes of one POST: a response with a status, or an exception. *)
Statuses == {200, 429}

Response(status) == [raised |-> FALSE, status |-> status]

PostRaised == [raised |-> TRUE, status |-> 0]

Outcomes == {Response(s) : s \in Statuses} \cup {PostRaised}

(* Python's truth value of a configuration value. *)
TruthyToken(t) == t # Null /\ t # ""

TruthyChat(c) ==
    CASE c.type = "none" -> FALSE
      [] c.type = "int" -> c.int # 0
      [] c.type = "str" -> c.str # <<>>

(* str() of a chat id: the decimal digits of an integer, a string as it is. *)
DigitChars == <<"0", "1", "2", "3", "4", "5", "6", "7", "8", "9">>

RECURSIVE Digits(_)
Digits(n) ==
    IF n < 10 THEN <<DigitChars[n + 1]>>
    ELSE Append(Digits(n \div 10), DigitChars[(n % 10) + 1])

Str(c) ==
    CASE c.type = "str" -> c.str
      [] c.type = "int" -> IF c.int < 0 THEN <<"-">> \o Digits(-c.int)
                           ELSE Digits(c.int)
      [] c.type = "none" -> <<"N", "o", "n", "e">>

(* __init__: the flag the base class sets is cleared when bot_token or      *)
(* chat_id is missing or empty.                                            *)
TelegramNotifier(bot_token, chat_id, enabled) ==
    [bot_token |-> bot_token, chat_id |-> chat_id,
     enabled |-> IF ~TruthyToken(bot_token) \/ ~TruthyChat(chat_id)
                   THEN FALSE ELSE enabled]

(* is_enabled() of the base class reads the flag. *)
IsEnabled(n) == n.enabled

(* The chat_ids argument: None, or a list of up to MaxChats chat ids. *)
RECURSIVE ChatLists(_)
ChatLists(k) ==
    IF k = 0 THEN {<<>>}
    ELSE ChatLists(k - 1) \cup
         {Append(l, c) : l \in {x \in ChatLists(k - 1) : Len(x) = k - 1},
                         c \in ChatIds}

NoChatIds == [given |-> FALSE, list |-> <<>>]

ChatIdArguments == {NoChatIds} \cup {[given |-> TRUE, list |-> l] : l \in ChatLists(MaxChats)}

(* chat_ids if chat_ids else [self.chat_id] *)
TargetChatIds(n, chat_ids) ==
    IF chat_ids.given /\ chat_ids.list # <<>> THEN chat_ids.list
    ELSE <<n.chat_id>>

NoCall ==
    [pc |-> "idle", chat_ids |-> NoChatIds, target_chat_ids |-> <<>>,
     success_count |-> 0, returned |-> FALSE]

InitTelegram ==
    /\ \E t \in BotTokens, c \in ConfigChatIds, e \in BOOLEAN :
          notifier = TelegramNotifier(t, c, e)
    /\ call = NoCall
    /\ posts = <<>>
    /\ kind = "none"
    /\ cfg = None
    /\ absent = "none"
    /\ candles = <<>>
    /\ frame = <<>>
    /\ result = NoResult
    /\ processed_data = EmptyDict
    /\ raised = "none"
    /\ ScreenerIdle

(* send_notification up to its first request: a disabled notifier returns  *)
(* False; an enabled one fixes its targets and opens the session.          *)
TG_send_notification ==
    /\ call.pc \in {"idle", "returned"}
    /\ \E chat_ids \in ChatIdArguments :
          call' = IF ~IsEnabled(notifier)
                    THEN [NoCall EXCEPT !.pc = "returned", !.chat_ids = chat_ids]
                    ELSE [NoCall EXCEPT !.pc = "posting", !.chat_ids = chat_ids,
                                        !.target_chat_ids =
                                            TargetChatIds(notifier, chat_ids)]
    /\ posts' = <<>>
    /\ UNCHANGED <<notifier, evaluator_vars, screener_vars>>

(* One pass of the loop: the POST for the next target, counted when its   *)
(* status is 200; another status or an exception is logged.               *)
Counted(success_count, outcome) ==
    IF ~outcome.raised /\ outcome.status = 200 THEN success_count + 1
    ELSE success_count

TG_post ==
    /\ call.pc = "posting"
    /\ Len(posts) < Len(call.target_chat_ids)
    /\ \E outcome \in Outcomes :
          /\ posts' = Append(posts,
                             [chat_id |-> Str(call.target_chat_ids[Len(posts) + 1]),
                              outcome |-> outcome])
          /\ call' = [call EXCEPT !.success_count = Counted(@, outcome)]
    /\ UNCHANGED <<notifier, evaluator_vars, screener_vars>>

(* The value returned after the loop. *)
ReturnValueAll(success_count) == success_count > 1

ReturnValue(success_count) == success_count > 0

TG_return ==
    /\ call.pc = "posting"
    /\ Len(posts) = Len(call.target_chat_ids)
    /\ call' = [call EXCEPT !.pc = "returned",
                            !.returned = ReturnValue(call.success_count)]
    /\ UNCHANGED <<notifier, posts, evaluator_vars, screener_vars>>

NextTelegram ==
    \/ TG_send_notification
    \/ TG_post
    \/ TG_return

SpecTelegram == InitTelegram /\ [][NextTelegram]_vars

(* The targets of the call in hand, as the claim names them. *)
ClaimedTargets ==
    IF call.chat_ids.given /\ Len(call.chat_ids.list) > 0
      THEN call.chat_ids.list ELSE <<notifier.chat_id>>

(* The requests made so far are those for the first targets, in order. *)
PostedInOrder ==
    /\ Len(posts) <= Len(ClaimedTargets)
    /\ \A i \in 1..Len(posts) : posts[i].chat_id = Str(ClaimedTargets[i])

SomePost200 ==
    \E i \in 1..Len(posts) :
        ~posts[i].outcome.raised /\ posts[i].outcome.status = 200

(* C20: an enabled notifier posts once per target chat id, in list order,  *)
(* going on after a non-200 response or an exception, and returns True     *)
(* exactly when some POST answered 200; a notifier disabled for a missing  *)
(* bot_token or chat_id returns False and posts nothing.                   *)
C20_PostsAndReturn ==
    /\ (call.pc \in {"posting", "returned"} /\ notifier.enabled) => PostedInOrder
    /\ (call.pc = "returned" /\ notifier.enabled) =>
          /\ Len(posts) = Len(ClaimedTargets)
          /\ call.returned <=> SomePost200
    /\ (call.pc = "returned"
          /\ (~TruthyToken(notifier.bot_token) \/ ~TruthyChat(notifier.chat_id))) =>
          /\ ~call.returned
          /\ posts = <<>>

C20_Witness ==
    /\ call.pc = "returned"
    /\ notifier.enabled
    /\ call.returned
    /\ Len(posts) = 2
    /\ posts[1].outcome.raised
    /\ posts[2].outcome.status = 200
    /\ posts[2].chat_id = <<"-", "5">>

-----------------------------------------------------------------------------
(* filter_pools of the pools screener. *)

MaxCleaned == 2

(* The thresholds of a task configured with the defaults. *)
ScreenerConfig ==
    [min_pool_age_days |-> 2, min_fdv |-> 70000, max_fdv |-> 5000000,
     min_volume_24h |-> 150000, min_liquidity |-> 50000,
     min_transactions_24h |-> 300]

(* datetime.now() at the call, and pool_created_at, in days. *)
Nows == {10, 11}

CreatedAt == {7, 8, 9}

(* fdv_usd below, at and above the two bounds. *)
CleanedFdv == {I(69999), I(70000), I(5000000), I(5000001)}

(* The other four columns: each at its bound, or one of them below it or  *)
(* missing.                                                                *)
AtBounds ==
    [volume_usd_h24 |-> I(150000), reserve_in_usd |-> I(50000),
     transactions_h24_buys |-> I(300), transactions_h24_sells |-> I(300)]

CleanedRest ==
    { AtBounds,
      [AtBounds EXCEPT !.volume_usd_h24 = I(149999)],
      [AtBounds EXCEPT !.volume_usd_h24 = NaN],
      [AtBounds EXCEPT !.reserve_in_usd = I(49999)],
      [AtBounds EXCEPT !.transactions_h24_buys = I(299)],
      [AtBounds EXCEPT !.transactions_h24_sells = I(299)] }

CleanedPools ==
    { [pool_created_at |-> d, fdv_usd |-> f] @@ r :
          d \in CreatedAt, f \in CleanedFdv, r \in CleanedRest }

(* The mask of lines 95-101 on one row. *)
Kept(row, c, now) ==
    /\ row.pool_created_at > now - c.min_pool_age_days
    /\ Ge(row.fdv_usd, I(c.min_fdv))
    /\ Le(row.fdv_usd, I(c.max_fdv))
    /\ Ge(row.volume_usd_h24, I(c.min_volume_24h))
    /\ Ge(row.reserve_in_usd, I(c.min_liquidity))
    /\ Ge(row.transactions_h24_buys, I(c.min_transactions_24h))
    /\ Ge(row.transactions_h24_sells, I(c.min_transactions_24h))

(* pools[mask]: the rows of the mask, in the table's order. *)
RECURSIVE Masked(_, _, _)
Masked(rows, c, now) ==
    IF rows = <<>> THEN <<>>
    ELSE IF Kept(Head(rows), c, now)
      THEN <<Head(rows)>> \o Masked(Tail(rows), c, now)
    ELSE Masked(Tail(rows), c, now)

(* filter_pools.  The frame clean_pools returns after an error has no      *)
(* columns: reading pool_created_at raises, the error is logged and an     *)
(* empty frame returned.                                                   *)
FilterPools(table, c, now) ==
    IF table.logged
      THEN [op |-> "filter_pools", logged |-> TRUE, now |-> now, rows |-> <<>>]
    ELSE [op |-> "filter_pools", logged |-> FALSE, now |-> now,
          rows |-> Masked(table.rows, c, now)]

(* The task and the table clean_pools returned: the empty frame of its     *)
(* except branch, or a frame with its columns and no row yet.              *)
InitFilter ==
    /\ cfg = ScreenerConfig
    /\ cleaned \in {CleanFailed,
                    [op |-> "clean_pools", logged |-> FALSE, rows |-> <<>>]}
    /\ filtered = NoResult
    /\ pools = <<>>
    /\ kind = "none"
    /\ absent = "none"
    /\ candles = <<>>
    /\ frame = <<>>
    /\ result = NoResult
    /\ processed_data = EmptyDict
    /\ raised = "none"
    /\ NotifierIdle

(* The cleaned table has one more pool. *)
CleanedPool ==
    /\ ~cleaned.logged
    /\ Len(cleaned.rows) < MaxCleaned
    /\ \E row \in CleanedPools :
          cleaned' = [cleaned EXCEPT !.rows = Append(@, row)]
    /\ filtered' = NoResult
    /\ UNCHANGED <<pools, evaluator_vars, notifier_vars>>

(* filter_pools(cleaned.copy()) *)
PS_filter_pools ==
    /\ \E now \in Nows : filtered' = FilterPools(cleaned, cfg, now)
    /\ UNCHANGED <<pools, cleaned, evaluator_vars, notifier_vars>>

NextFilter ==
    \/ CleanedPool
    \/ PS_filter_pools

SpecFilter == InitFilter /\ [][NextFilter]_vars

(* The criteria as the claim states them: age at least min_pool_age_days   *)
(* and every value within its bound, bounds included.                      *)
Eligible(row, now) ==
    /\ now - row.pool_created_at >= cfg.min_pool_age_days
    /\ Ge(row.fdv_usd, I(cfg.min_fdv))
    /\ Le(row.fdv_usd, I(cfg.max_fdv))
    /\ Ge(row.volume_usd_h24, I(cfg.min_volume_24h))
    /\ Ge(row.reserve_in_usd, I(cfg.min_liquidity))
    /\ Ge(row.transactions_h24_buys, I(cfg.min_transactions_24h))
    /\ Ge(row.transactions_h24_sells, I(cfg.min_transactions_24h))

(* C21: every pool filter_pools returns satisfies the criteria (age at     *)
(* least min_pool_age_days, values within the inclusive bounds) and every  *)
(* pool of the input that satisfies them is returned.                      *)
C21_FilterKeepsEligible ==
    (filtered.op = "filter_pools" /\ ~filtered.logged) =>
        /\ \A i \in 1..Len(filtered.rows) :
              Eligible(filtered.rows[i], filtered.now)
        /\ \A i \in 1..Len(cleaned.rows) :
              Eligible(cleaned.rows[i], filtered.now) =>
                  \E j \in 1..Len(filtered.rows) :
                      filtered.rows[j] = cleaned.rows[i]

-----------------------------------------------------------------------------
(* The two controllers alone: the window grows and cycles run on it. *)

InitCycles ==
    /\ kind \in {"ema", "macd"}
    /\ Init

NextCycles ==
    \/ AppendCandle
    \/ EMA_update_processed_data
    \/ MACD_update_processed_data

SpecCycles == InitCycles /\ [][NextCycles]_vars

(* The signal entry is the signal of the last row of the features entry. *)
SignalOfFeatures ==
    processed_data # EmptyDict =>
        /\ Len(processed_data.features) > 0
        /\ processed_data.signal = Last(processed_data.features).signal

(* A step is a cycle that raised. *)
CycleRaised ==
    /\ result'.op = "update_processed_data"
    /\ raised' # "none"

(* C22: in both controllers processed_data["signal"] is always the signal  *)
(* of the last row of processed_data["features"], and a cycle that raises  *)
(* leaves processed_data as it was before the cycle.                       *)
C22_SameCycle ==
    /\ []SignalOfFeatures
    /\ [][CycleRaised => processed_data' = processed_data]_vars

C22_Witness ==
    /\ result.op = "update_processed_data"
    /\ raised # "none"
    /\ processed_data # EmptyDict
    /\ Len(processed_data.features) < Len(candles)
    /\ processed_data.signal = Last(processed_data.features).signal

-----------------------------------------------------------------------------
(* The band evaluator alone, create_signal called with thresholds up to    *)
(* and above one half.                                                     *)

BandMinIntensities == {I(0), Q(1, 2), Q(3, 5)}

InitBands ==
    /\ kind = "bb"
    /\ Init

BB_create_signal_at ==
    /\ kind = "bb"
    /\ \E m \in BandMinIntensities :
          Returned("create_signal", BbCreateSignal(cfg, candles, absent, m))

NextBands ==
    \/ AppendCandle
    \/ BB_calculate
    \/ BB_create_signal_at

SpecBands == InitBands /\ [][NextBands]_vars

Half == S0(Q(1, 2))

(* create_signal returned a Signal. *)
Emitted == result.op = "create_signal" /\ result.raises = "none"
           /\ result.ret # None

(* The magnitude of the emitted value is above one half. *)
ValueAboveHalf ==
    IF result.signal_dir = 1 THEN SGt(result.ret.value, Half)
    ELSE SLt(result.ret.value, S0(Q(-1, 2)))

====
